---- MODULE Spec2Model ----
(***************************************************************************)
(* A model of package log (blitiri.com.ar/go/log): the Logger's write path *)
(* (Log), its level check (V), file reopening (Reopen), and the fan-out    *)
(* writer (mwc).                                                           *)
(*                                                                         *)
(* Five specifications share the variables:                                *)
(*   Spec         goroutines calling Log and Reopen on one Logger while a  *)
(*                rotation tool renames the backing file;                  *)
(*   SpecCwd      Spec, plus the process changing its working directory    *)
(*                and NewFile given a relative path;                       *)
(*   SpecFmt      one goroutine calling Log and its wrappers at every      *)
(*                level and floor, the lines rendered character by         *)
(*                character;                                               *)
(*   SpecToggles  SpecFmt, plus the level and caller toggles being set;    *)
(*   SpecMwc      the fan-out writer's Write and Close over writers that   *)
(*                may fail.                                                *)
(***************************************************************************)
EXTENDS Integers, Sequences, FiniteSets, TLC

VARIABLES
    Level,      \* Logger.Level: the verbosity floor
    fname,      \* Logger.fname: <<>> when the logger is not file backed
    w,          \* Logger.w: the sink, an index into handles
    mu,         \* Logger's embedded sync.Mutex: 0 free, else the holder
    handles,    \* open file descriptions: [ino, open, closes]
    files,      \* the directory tree: absolute path -> inode, 0 if absent
    content,    \* inode -> the chunks written to it, in order
    cwd,        \* the process's working directory
    pc,         \* goroutine -> its position in Log or Reopen
    loc,        \* goroutine -> its locals: [m, h, f, ret]
    calls,      \* history: the Log calls that passed the level check
    hist,       \* history: what the environment and Reopen have done
    logTime,    \* Logger.logTime
    callerSkip, \* Logger.callerSkip
    LogLevel,   \* the LogLevel toggle the tests set
    LogCaller,  \* the LogCaller toggle the tests set
    out,        \* SpecFmt's sink: the byte strings written, one per Write
    last,       \* SpecFmt: the last call, its inputs and what it did
    sinks,      \* SpecMwc: the writers a fan-out writer wraps
    mres        \* SpecMwc: the last fan-out call and its result

fsVars == <<fname, w, mu, handles, files, content, cwd, pc, loc, calls, hist>>
fmtVars == <<logTime, callerSkip, LogLevel, LogCaller, out, last>>
mwcVars == <<sinks, mres>>

vars == <<Level, fsVars, fmtVars, mwcVars>>

---------------------------------------------------------------------------
(* Bounds. *)

NThreads == 2
MaxCalls == 2
MaxReopens == 1

Threads == 1..NThreads

---------------------------------------------------------------------------
(* Levels (log.go:60-65) and the level check. *)

Fatal == 0 - 2
Error == 0 - 1
Info  == 0
Debug == 1

\* A faulty V: a call at the floor itself is dropped.
VStrict(floor, level) == level < floor

\* func (l *Logger) V(level Level) bool
V(floor, level) == level <= floor

---------------------------------------------------------------------------
(* The file system, as far as os.OpenFile and os.Rename use it. *)

DirA == <<"/", "a">>
DirB == <<"/", "b">>
Dirs == {DirA, DirB}
Names == {"log", "log-m"}
AbsPaths == {d \o <<n>> : d \in Dirs, n \in Names}

RelLog == <<"log">>
AbsLog == DirA \o <<"log">>

IsAbs(p) == p # <<>> /\ p[1] = "/"

\* The kernel's resolution of a path against the working directory.
Resolve(dir, p) == IF IsAbs(p) THEN p ELSE dir \o p

\* The path a rotation tool moves the file to: fname + "-m".
Rotated(p) == [p EXCEPT ![Len(p)] = p[Len(p)] \o "-m"]

NoFiles == [p \in AbsPaths |-> 0]

\* A descriptor: the inode it refers to, and the path that was opened.
NewHandle(ino, path) == [ino |-> ino, at |-> path, open |-> TRUE, closes |-> 0]

\* os.OpenFile(path, O_CREATE|O_APPEND|O_WRONLY, 0644) succeeding: the file
\* is created empty when absent, and a new descriptor refers to it.
OpenCreates(p) == files[Resolve(cwd, p)] = 0
OpenedIno(p) == IF OpenCreates(p) THEN Len(content) + 1 ELSE files[Resolve(cwd, p)]
FilesAfterOpen(p) == [files EXCEPT ![Resolve(cwd, p)] = OpenedIno(p)]
ContentAfterOpen(p) == IF OpenCreates(p) THEN Append(content, <<>>) ELSE content

\* (*os.File).Close: the descriptor is closed.
CloseHandle(hs, h) ==
    [hs EXCEPT ![h] = [@ EXCEPT !.open = FALSE, !.closes = @ + 1]]

---------------------------------------------------------------------------
(* Construction. *)

NoLoc == [m |-> 0, h |-> 0, f |-> 0, ret |-> "none"]

\* renamed: the rotation tool has moved the file; atRename: the descriptors
\* that existed then; raced: a Reopen had opened the path but not yet
\* installed it when the file was moved; reopens: Reopen calls so far;
\* reopenStarted: a Reopen of a file has begun; reopened: a Reopen that
\* opened the path after the move has returned; replaced: the sinks Reopen
\* has replaced; fails: what each failed Reopen left behind.
NoHist == [renamed |-> FALSE, raced |-> FALSE, atRename |-> 0, reopens |-> 0,
           reopenStarted |-> FALSE, reopened |-> FALSE, replaced |-> {},
           fails |-> {}]

\* No call yet. level, floor: the call's level and the floor it met; ret: what
\* it returned; writes: its calls of the sink's Write; bytes: the bytes the
\* sink took; locked: whether it took the lock; line: what it handed to the
\* sink; msg, caller: the formatted message and the caller field; time,
\* tLevel, tCaller: the toggles as the call found them.
NoLast == [op |-> "none", level |-> 0, floor |-> 0, ret |-> "none", writes |-> 0,
           bytes |-> 0, locked |-> FALSE, line |-> <<>>, msg |-> <<>>,
           caller |-> <<>>, time |-> FALSE, tLevel |-> FALSE, tCaller |-> FALSE]

\* No fan-out call yet. err: 0 for nil, else the wrapped writer whose error
\* was returned; p: the bytes given; fail: the writers that fail in this
\* call; before: the writers as the call found them.
NoRes == [op |-> "none", err |-> 0, p |-> <<>>, fail |-> {}, before |-> <<>>]

\* The variables of the other specifications, at rest.
FmtIdle ==
    /\ logTime = TRUE
    /\ callerSkip = 0
    /\ LogLevel = TRUE
    /\ LogCaller = TRUE
    /\ out = <<>>
    /\ last = NoLast

MwcIdle ==
    /\ sinks = <<>>
    /\ mres = NoRes

InitCommon ==
    /\ FmtIdle
    /\ MwcIdle
    /\ Level = Info
    /\ mu = 0
    /\ w = 1
    /\ content = << <<>> >>
    /\ cwd = DirA
    /\ pc = [t \in Threads |-> "idle"]
    /\ loc = [t \in Threads |-> NoLoc]
    /\ calls = <<>>
    /\ hist = NoHist

\* New(w): the sink is a writer that is no file of the tree.
InitNew ==
    /\ InitCommon
    /\ fname = <<>>
    /\ handles = <<NewHandle(1, <<>>)>>
    /\ files = NoFiles

\* NewFile(path): the file is opened (created) and the path kept as given.
InitNewFile(path) ==
    /\ InitCommon
    /\ fname = path
    /\ handles = <<NewHandle(1, Resolve(DirA, path))>>
    /\ files = [NoFiles EXCEPT ![Resolve(DirA, path)] = 1]

Init == InitNew \/ InitNewFile(AbsLog)

---------------------------------------------------------------------------
(* Logger.Log, one goroutine t. *)

CallLevels == {Info, Debug}

\* A Log call's history: post, it began after a Reopen that followed the
\* move had returned; nre, the Reopen calls before it; afterFail, it began
\* after a failed Reopen; pre, it returned before any Reopen began.
NewCall(t) == [t |-> t, post |-> hist.reopened, nre |-> hist.reopens,
               afterFail |-> hist.fails # {}, pre |-> FALSE,
               done |-> FALSE, err |-> FALSE]

\* if !l.V(level) { return nil }, then the formatting, which touches nothing
\* shared.
LogCall(t, level) ==
    /\ pc[t] = "idle"
    /\ Len(calls) < MaxCalls
    /\ IF ~V(Level, level)
       THEN /\ loc' = [loc EXCEPT ![t] = [NoLoc EXCEPT !.ret = "nil"]]
            /\ UNCHANGED <<pc, calls>>
       ELSE /\ calls' = Append(calls, NewCall(t))
            /\ loc' = [loc EXCEPT ![t] = [NoLoc EXCEPT !.m = Len(calls) + 1]]
            /\ pc' = [pc EXCEPT ![t] = "l_lock"]
    /\ UNCHANGED <<Level, fmtVars, mwcVars, fname, w, mu, handles, files, content, cwd, hist>>

\* A faulty Log: the write is made without the lock.
LogLockSkipped(t) ==
    /\ pc[t] = "l_lock"
    /\ pc' = [pc EXCEPT ![t] = "l_write"]
    /\ UNCHANGED <<Level, fmtVars, mwcVars, fname, w, mu, handles, files, content, cwd, loc, calls, hist>>

\* l.Lock()
LogLock(t) ==
    /\ pc[t] = "l_lock"
    /\ mu = 0
    /\ mu' = t
    /\ pc' = [pc EXCEPT ![t] = "l_write"]
    /\ UNCHANGED <<Level, fmtVars, mwcVars, fname, w, handles, files, content, cwd, loc, calls, hist>>

\* l.w.Write([]byte(msg)) is entered: l.w is read, and the sink takes the
\* first part of the line. A closed file refuses the write.
LogWriteBegin(t) ==
    /\ pc[t] = "l_write"
    /\ IF handles[w].open
       THEN /\ content' = [content EXCEPT ![handles[w].ino] =
                              Append(@, <<loc[t].m, 1>>)]
            /\ loc' = [loc EXCEPT ![t].h = w]
            /\ pc' = [pc EXCEPT ![t] = "l_write2"]
       ELSE /\ loc' = [loc EXCEPT ![t].ret = "err"]
            /\ pc' = [pc EXCEPT ![t] = "l_unlock"]
            /\ UNCHANGED content
    /\ UNCHANGED <<Level, fmtVars, mwcVars, fname, w, mu, handles, files, cwd, calls, hist>>

\* The sink takes the rest of the line, newline included, and Write returns.
LogWriteEnd(t) ==
    /\ pc[t] = "l_write2"
    /\ content' = [content EXCEPT ![handles[loc[t].h].ino] =
                      Append(@, <<loc[t].m, 2>>)]
    /\ loc' = [loc EXCEPT ![t].ret = "nil"]
    /\ pc' = [pc EXCEPT ![t] = "l_unlock"]
    /\ UNCHANGED <<Level, fmtVars, mwcVars, fname, w, mu, handles, files, cwd, calls, hist>>

\* l.Unlock(); return err
LogUnlock(t) ==
    /\ pc[t] = "l_unlock"
    /\ mu' = 0
    /\ calls' = [calls EXCEPT ![loc[t].m] =
                    [@ EXCEPT !.done = TRUE,
                              !.err = (loc[t].ret = "err"),
                              !.pre = ~hist.reopenStarted]]
    /\ loc' = [loc EXCEPT ![t] = [NoLoc EXCEPT !.ret = loc[t].ret]]
    /\ pc' = [pc EXCEPT ![t] = "idle"]
    /\ UNCHANGED <<Level, fmtVars, mwcVars, fname, w, handles, files, content, cwd, hist>>

---------------------------------------------------------------------------
(* Logger.Reopen, one goroutine t. *)

\* What a failed Reopen left behind, taken as it returns.
FailSnap(t, wAfter, hsAfter) ==
    [t |-> t, before |-> w, after |-> wAfter,
     closed |-> hsAfter[w].closes # handles[w].closes,
     open |-> hsAfter[wAfter].open]

ReopenReturns(t, r) ==
    /\ loc' = [loc EXCEPT ![t] = [NoLoc EXCEPT !.ret = r]]
    /\ pc' = [pc EXCEPT ![t] = "idle"]

\* A faulty Reopen: the path is opened without the check of l.fname, and
\* opening the empty path fails.
ReopenOpenUnchecked(t, ok) ==
    /\ pc[t] = "idle"
    /\ hist.reopens < MaxReopens
    /\ IF fname = <<>> \/ ~ok
       THEN /\ ReopenReturns(t, "err")
            /\ hist' = [hist EXCEPT !.reopens = @ + 1, !.reopenStarted = TRUE,
                                    !.fails = @ \cup {FailSnap(t, w, handles)}]
            /\ UNCHANGED <<handles, files, content>>
       ELSE /\ handles' = Append(handles, NewHandle(OpenedIno(fname), Resolve(cwd, fname)))
            /\ files' = FilesAfterOpen(fname)
            /\ content' = ContentAfterOpen(fname)
            /\ loc' = [loc EXCEPT ![t] = [NoLoc EXCEPT !.f = Len(handles) + 1]]
            /\ pc' = [pc EXCEPT ![t] = "r_lock"]
            /\ hist' = [hist EXCEPT !.reopens = @ + 1, !.reopenStarted = TRUE]
    /\ UNCHANGED <<Level, fmtVars, mwcVars, fname, w, mu, cwd, calls>>

\* A faulty Reopen: the old sink is closed before the new file is opened.
ReopenOpenCloseFirst(t, ok) ==
    /\ pc[t] = "idle"
    /\ hist.reopens < MaxReopens
    /\ IF fname = <<>>
       THEN /\ ReopenReturns(t, "nil")
            /\ hist' = [hist EXCEPT !.reopens = @ + 1]
            /\ UNCHANGED <<handles, files, content>>
       ELSE IF ~ok
       THEN /\ ReopenReturns(t, "err")
            /\ handles' = CloseHandle(handles, w)
            /\ hist' = [hist EXCEPT !.reopens = @ + 1, !.reopenStarted = TRUE,
                                    !.fails = @ \cup {FailSnap(t, w, handles')}]
            /\ UNCHANGED <<files, content>>
       ELSE /\ handles' = Append(CloseHandle(handles, w), NewHandle(OpenedIno(fname), Resolve(cwd, fname)))
            /\ files' = FilesAfterOpen(fname)
            /\ content' = ContentAfterOpen(fname)
            /\ loc' = [loc EXCEPT ![t] = [NoLoc EXCEPT !.f = Len(handles) + 1]]
            /\ pc' = [pc EXCEPT ![t] = "r_swap"]
            /\ hist' = [hist EXCEPT !.reopens = @ + 1, !.reopenStarted = TRUE]
    /\ UNCHANGED <<Level, fmtVars, mwcVars, fname, w, mu, cwd, calls>>

\* if l.fname == "" { return nil }
\* f, err := os.OpenFile(l.fname, ...); if err != nil { return err }
\* ok is whether the system lets the file be opened.
ReopenOpen(t, ok) ==
    /\ pc[t] = "idle"
    /\ hist.reopens < MaxReopens
    /\ IF fname = <<>>
       THEN /\ ReopenReturns(t, "nil")
            /\ hist' = [hist EXCEPT !.reopens = @ + 1]
            /\ UNCHANGED <<handles, files, content>>
       ELSE IF ~ok
       THEN /\ ReopenReturns(t, "err")
            /\ hist' = [hist EXCEPT !.reopens = @ + 1, !.reopenStarted = TRUE,
                                    !.fails = @ \cup {FailSnap(t, w, handles)}]
            /\ UNCHANGED <<handles, files, content>>
       ELSE /\ handles' = Append(handles, NewHandle(OpenedIno(fname), Resolve(cwd, fname)))
            /\ files' = FilesAfterOpen(fname)
            /\ content' = ContentAfterOpen(fname)
            /\ loc' = [loc EXCEPT ![t] = [NoLoc EXCEPT !.f = Len(handles) + 1]]
            /\ pc' = [pc EXCEPT ![t] = "r_lock"]
            /\ hist' = [hist EXCEPT !.reopens = @ + 1, !.reopenStarted = TRUE]
    /\ UNCHANGED <<Level, fmtVars, mwcVars, fname, w, mu, cwd, calls>>

\* A faulty Reopen: the sink is closed and replaced without the lock.
ReopenLockSkipped(t) ==
    /\ pc[t] = "r_lock"
    /\ pc' = [pc EXCEPT ![t] = "r_close"]
    /\ UNCHANGED <<Level, fmtVars, mwcVars, fname, w, mu, handles, files, content, cwd, loc, calls, hist>>

\* l.Lock()
ReopenLock(t) ==
    /\ pc[t] = "r_lock"
    /\ mu = 0
    /\ mu' = t
    /\ pc' = [pc EXCEPT ![t] = "r_close"]
    /\ UNCHANGED <<Level, fmtVars, mwcVars, fname, w, handles, files, content, cwd, loc, calls, hist>>

\* l.Close(), which is l.w.Close()
ReopenClose(t) ==
    /\ pc[t] = "r_close"
    /\ handles' = CloseHandle(handles, w)
    /\ pc' = [pc EXCEPT ![t] = "r_swap"]
    /\ UNCHANGED <<Level, fmtVars, mwcVars, fname, w, mu, files, content, cwd, loc, calls, hist>>

\* A faulty Reopen: the new file is never installed.
ReopenSwapForgotten(t) ==
    /\ pc[t] = "r_swap"
    /\ pc' = [pc EXCEPT ![t] = "r_unlock"]
    /\ UNCHANGED <<Level, fmtVars, mwcVars, fname, w, mu, handles, files, content, cwd, loc, calls, hist>>

\* l.w = f
ReopenSwap(t) ==
    /\ pc[t] = "r_swap"
    /\ w' = loc[t].f
    /\ hist' = [hist EXCEPT !.replaced = @ \cup {w}]
    /\ pc' = [pc EXCEPT ![t] = "r_unlock"]
    /\ UNCHANGED <<Level, fmtVars, mwcVars, fname, mu, handles, files, content, cwd, loc, calls>>

\* l.Unlock(); return nil
ReopenUnlock(t) ==
    /\ pc[t] = "r_unlock"
    /\ mu' = 0
    /\ hist' = [hist EXCEPT !.reopened =
                   @ \/ (hist.renamed /\ loc[t].f > hist.atRename)]
    /\ ReopenReturns(t, "nil")
    /\ UNCHANGED <<Level, fmtVars, mwcVars, fname, w, handles, files, content, cwd, calls>>

---------------------------------------------------------------------------
(* The environment. *)

\* The path the log file was created at.
OrigPath == Resolve(DirA, fname)

InReopen(t) == pc[t] \in {"r_lock", "r_close", "r_swap"}

\* A rotation tool renames the log file: os.Rename(fname, fname+"-m").
Rename ==
    /\ fname # <<>>
    /\ ~hist.renamed
    /\ files[OrigPath] # 0
    /\ files' = [files EXCEPT ![OrigPath] = 0,
                              ![Rotated(OrigPath)] = files[OrigPath]]
    /\ hist' = [hist EXCEPT !.renamed = TRUE,
                            !.atRename = Len(handles),
                            !.raced = \E t \in Threads : InReopen(t)]
    /\ UNCHANGED <<Level, fmtVars, mwcVars, fname, w, mu, handles, content, cwd, pc, loc, calls>>

\* os.Chdir(d)
Chdir(d) ==
    /\ d # cwd
    /\ cwd' = d
    /\ UNCHANGED <<Level, fmtVars, mwcVars, fname, w, mu, handles, files, content, pc, loc, calls, hist>>

---------------------------------------------------------------------------

Next ==
    \/ \E t \in Threads, level \in CallLevels : LogCall(t, level)
    \/ \E t \in Threads : LogLock(t)
    \/ \E t \in Threads : LogWriteBegin(t)
    \/ \E t \in Threads : LogWriteEnd(t)
    \/ \E t \in Threads : LogUnlock(t)
    \/ \E t \in Threads, ok \in BOOLEAN : ReopenOpen(t, ok)
    \/ \E t \in Threads : ReopenLock(t)
    \/ \E t \in Threads : ReopenClose(t)
    \/ \E t \in Threads : ReopenSwap(t)
    \/ \E t \in Threads : ReopenUnlock(t)
    \/ Rename

Spec == Init /\ [][Next]_vars

\* The same, the process also changing its working directory.
InitCwd == InitNew \/ InitNewFile(RelLog) \/ InitNewFile(AbsLog)

NextCwd ==
    \/ Next
    \/ \E d \in Dirs : Chdir(d)

SpecCwd == InitCwd /\ [][NextCwd]_vars

---------------------------------------------------------------------------
(* What the files hold. *)

\* Where chunk k of message m lies: <<inode, position>>.
Places(m, k) ==
    {x \in UNION {{<<i, j>> : j \in DOMAIN content[i]} : i \in DOMAIN content} :
        content[x[1]][x[2]] = <<m, k>>}

\* Message m lies in inode i as one whole line.
WholeIn(m, i) ==
    /\ i \in DOMAIN content
    /\ \E j \in DOMAIN content[i] :
          /\ content[i][j] = <<m, 1>>
          /\ j + 1 \in DOMAIN content[i]
          /\ content[i][j + 1] = <<m, 2>>

Once(m) == Cardinality(Places(m, 1)) = 1 /\ Cardinality(Places(m, 2)) = 1

InWrite(t) == pc[t] = "l_write2"

\* A stream of whole lines, but for a last line whose Write is under way.
WholeLines(i) ==
    \A j \in DOMAIN content[i] :
        LET c == content[i][j] IN
        /\ c[2] = 1 =>
              IF j < Len(content[i])
              THEN content[i][j + 1] = <<c[1], 2>>
              ELSE \E t \in Threads : InWrite(t) /\ loc[t].m = c[1]
        /\ c[2] = 2 => j > 1 /\ content[i][j - 1] = <<c[1], 1>>

---------------------------------------------------------------------------
(* C1 *)

\* C1: concurrent Log calls never overlap in the sink's Write: at most one
\* goroutine is inside Write, every emitted message went to the sink once,
\* and every sink's stream is a sequence of whole lines.
C1_WritesExclusive ==
    /\ Cardinality({t \in Threads : InWrite(t)}) <= 1
    /\ \A i \in DOMAIN content : WholeLines(i)
    /\ \A m \in DOMAIN calls : calls[m].done /\ ~calls[m].err => Once(m)

\* One goroutine is inside Write while another waits for the lock, and the
\* sink already holds the first part of the line.
C1_Witness ==
    \E t, u \in Threads :
        /\ InWrite(t)
        /\ pc[u] = "l_lock"
        /\ Places(loc[t].m, 1) # {}

---------------------------------------------------------------------------
(* C2 *)

\* C2: with the backing file renamed by a rotation tool, a Log call that
\* returned before any Reopen began left its line in the renamed file, a Log
\* call that began after a Reopen that followed the rename had returned left
\* its line in a new file at the original path, and every emitted line lies
\* exactly once in one of the two files.
C2_RotationKeepsEveryLine ==
    fname # <<>> =>
        \A m \in DOMAIN calls :
            calls[m].done =>
                /\ ~calls[m].err
                /\ Once(m)
                /\ WholeIn(m, 1) \/ WholeIn(m, files[OrigPath])
                /\ calls[m].pre =>
                      /\ WholeIn(m, 1)
                      /\ hist.renamed => files[Rotated(OrigPath)] = 1
                /\ calls[m].post /\ ~hist.raced =>
                      /\ files[OrigPath] \notin {0, 1}
                      /\ files[Rotated(OrigPath)] = 1
                      /\ WholeIn(m, files[OrigPath])

\* One line written before the Reopen lies in the renamed file and one
\* written after it lies in the new file.
C2_Witness ==
    /\ fname # <<>>
    /\ \E m, n \in DOMAIN calls :
          /\ calls[m].done /\ calls[m].pre /\ WholeIn(m, files[Rotated(OrigPath)])
          /\ calls[n].done /\ calls[n].post /\ WholeIn(n, files[OrigPath])
          /\ files[OrigPath] # files[Rotated(OrigPath)]

---------------------------------------------------------------------------
(* C5 *)

---------------------------------------------------------------------------
(* C9 *)

\* C9: on a Logger that is not file backed Reopen returns nil and changes
\* nothing: the sink is the one given to New, it is not closed, no file is
\* opened, and the lines written afterwards reach it.
C9_ReopenWithoutFileIsNoop ==
    fname = <<>> =>
        /\ w = 1
        /\ handles = <<NewHandle(1, <<>>)>>
        /\ files = NoFiles
        /\ hist.fails = {}
        /\ \A t \in Threads : loc[t].ret # "err"
        /\ \A m \in DOMAIN calls : calls[m].done => ~calls[m].err /\ WholeIn(m, 1)

\* Reopen has returned nil on such a Logger and a later Log call has written
\* its line to the sink.
C9_Witness ==
    /\ fname = <<>>
    /\ hist.reopens > 0
    /\ \E t \in Threads : pc[t] = "idle" /\ loc[t].ret = "nil"
    /\ \E m \in DOMAIN calls : calls[m].done /\ calls[m].nre > 0 /\ WholeIn(m, 1)

---------------------------------------------------------------------------
(* C10 *)

Closing(t) == pc[t] \in {"r_close", "r_swap", "r_unlock"}

\* C10: Reopen holds the lock from before it closes the old sink until the
\* new one is installed; no write is under way or begins between the close
\* and the swap, no write is issued to a closed sink, and every sink Reopen
\* replaced was closed exactly once.
C10_ReopenAtomic ==
    /\ \A t \in Threads : Closing(t) => mu = t
    /\ \A t, u \in Threads : pc[t] = "r_swap" => pc[u] \notin {"l_write", "l_write2"}
    /\ \A t \in Threads : InWrite(t) => handles[loc[t].h].open
    /\ \A m \in DOMAIN calls : calls[m].done => ~calls[m].err
    /\ \A h \in hist.replaced : ~handles[h].open /\ handles[h].closes = 1
    /\ handles[w].closes = IF \E t \in Threads : pc[t] = "r_swap" THEN 1 ELSE 0

\* Reopen has closed the old sink and not yet installed the new one, while a
\* Log call waits for the lock.
C10_Witness ==
    \E t, u \in Threads : pc[t] = "r_swap" /\ pc[u] = "l_lock"

---------------------------------------------------------------------------
(* C4 *)

\* C4: NewFile keeps the path in absolute form (it begins with "/"), so
\* that every file Reopen opens, also after a change of working directory,
\* is at the location NewFile opened.
C4_ReopenAtNewFileLocation ==
    fname # <<>> =>
        /\ IsAbs(fname)
        /\ \A h \in DOMAIN handles : handles[h].at = handles[1].at

---------------------------------------------------------------------------
(* Logger.Log's line, character by character. A string is a sequence of   *)
(* one-character strings.                                                  *)

MaxLines == 1

Sp == " "
Nl == "\n"

DigitChars == <<"0", "1", "2", "3", "4", "5", "6", "7", "8", "9">>

RECURSIVE NatChars(_)
NatChars(n) ==
    IF n < 10 THEN <<DigitChars[n + 1]>>
    ELSE NatChars(n \div 10) \o <<DigitChars[(n % 10) + 1]>>

\* strconv.Itoa, and fmt's %d
Itoa(n) == IF n < 0 THEN <<"-">> \o NatChars(0 - n) ELSE NatChars(n)

RECURSIVE Spaces(_)
Spaces(n) == IF n <= 0 THEN <<>> ELSE <<Sp>> \o Spaces(n - 1)

\* fmt's %-Ns and %-Nd: padded on the right to width n, never cut.
PadRight(str, n) == str \o Spaces(n - Len(str))

\* fmt.Sprintf(format, a...) for formats whose only verb is %d, one
\* argument per verb. A format is a sequence of characters and "%d".
RECURSIVE Sprintf(_, _)
Sprintf(format, a) ==
    IF format = <<>> THEN <<>>
    ELSE IF Head(format) = "%d"
         THEN Itoa(Head(a)) \o Sprintf(Tail(format), Tail(a))
         ELSE <<Head(format)>> \o Sprintf(Tail(format), a)

\* filepath.Base for the paths runtime.Caller reports: what follows the
\* last slash.
RECURSIVE Base(_)
Base(path) ==
    IF path = <<>> THEN <<".">>
    ELSE IF \E k \in DOMAIN path : path[k] = "/"
         THEN IF Len(path) = 1 THEN <<"/">>
              ELSE IF path[Len(path)] = "/" THEN Base(SubSeq(path, 1, Len(path) - 1))
              ELSE LET k == CHOOSE k \in DOMAIN path :
                                /\ path[k] = "/"
                                /\ \A j \in (k + 1)..Len(path) : path[j] # "/"
                   IN SubSeq(path, k + 1, Len(path))
         ELSE path

\* strings.HasSuffix(msg, "\n")
HasNewline(msg) == msg # <<>> /\ msg[Len(msg)] = Nl

TestFile == <<"/", "s", "/", "l", "o", "g", "_", "t", "e", "s", "t", ".", "g", "o">>
LongFile == <<"/", "s", "/", "r", "o", "t", "a", "t", "i", "n", "g", "_",
              "h", "a", "n", "d", "l", "e", "r", ".", "g", "o">>
LogGo == <<"/", "s", "/", "l", "o", "g", ".", "g", "o">>
Unknown == <<"u", "n", "k", "n", "o", "w", "n">>

\* The skull, U+2620, is written "X" here.
Skull == "X"

\* time.Now().Format("2006-01-02 15:04:05.000000 "): the 26 characters of
\* the date and time stand as one, the space after them as itself.
TimeStamp == <<"<time>", Sp>>

\* var levelToLetter
LevelToLetter(level) ==
    CASE level = Fatal -> <<Skull>>
      [] level = Error -> <<"E">>
      [] level = Info -> <<"_">>
      [] level = Debug -> <<".">>
      [] OTHER -> <<>>

\* letter, ok := levelToLetter[level]; if !ok { letter = strconv.Itoa(...) }
Letter(level) ==
    IF LevelToLetter(level) # <<>> THEN LevelToLetter(level) ELSE Itoa(level)

\* runtime.Caller(n) on a call stack whose first frame is Log's own.
CallerOk(stack, n) == n + 1 \in DOMAIN stack
CallerFile(stack, n) == IF CallerOk(stack, n) THEN stack[n + 1].file ELSE <<>>
CallerLine(stack, n) == IF CallerOk(stack, n) THEN stack[n + 1].line ELSE 0

\* fl := fmt.Sprintf("%s:%-4d", filepath.Base(file), line), its last 18
\* characters kept, then fmt.Sprintf("%-18s", fl).
CallerField(stack, n) ==
    LET file == IF CallerOk(stack, n) THEN CallerFile(stack, n) ELSE Unknown
        fl == Base(file) \o <<":">> \o PadRight(Itoa(CallerLine(stack, n)), 4)
        cut == IF Len(fl) > 18 THEN SubSeq(fl, Len(fl) - 17, Len(fl)) ELSE fl
    IN PadRight(cut, 18)

\* The bytes Log hands to the sink.
LogLine(level, skip, format, a, stack) ==
    LET msg0 == Sprintf(format, a)
        msg1 == CallerField(stack, 1 + callerSkip + skip) \o <<Sp>> \o msg0
        msg2 == Letter(level) \o <<Sp>> \o msg1
        msg3 == IF logTime THEN TimeStamp \o msg2 ELSE msg2
    IN IF HasNewline(msg3) THEN msg3 ELSE msg3 \o <<Nl>>

---------------------------------------------------------------------------
(* One goroutine calling Log and its wrappers. *)

Levels == (Fatal - 1)..(Debug + 1)
Floors == Fatal..(Debug + 1)

\* Log's own frame, the frames of the wrappers, and the callers' frames.
LogFrame == [file |-> LogGo, line |-> 178]
MethodFrame(line) == [file |-> LogGo, line |-> line]
PackageFrame == [file |-> LogGo, line |-> 277]
TestFrame == [file |-> TestFile, line |-> 40]
UserFrames == {TestFrame, [file |-> LongFile, line |-> 12345]}

\* The stack at runtime.Caller: Log, then the leveled method if the call
\* came through one, then the package-level function if the logger is
\* Default (callerSkip 1), then the caller.
Stack(method, user) ==
    <<LogFrame>> \o method
        \o (IF callerSkip = 1 THEN <<PackageFrame>> ELSE <<>>)
        \o <<user>>

\* "m %d" and "m %d\n", with the argument 1.
Plain == [format |-> <<"m", Sp, "%d">>, a |-> <<1>>]
Messages == {Plain, [format |-> <<"m", Sp, "%d", Nl>>, a |-> <<1>>]}

\* 0 names the caller; 2 runs past the end of the stack.
Skips == {0, 2}

\* func (l *Logger) Log(level Level, skip int, format string, a ...interface{}) error
\* ok is whether the sink's Write succeeds.
Log(op, level, skip, m, stack, ok) ==
    IF ~V(Level, level)
    THEN /\ last' = [NoLast EXCEPT !.op = op, !.level = level, !.floor = Level,
                                   !.ret = "nil"]
         /\ UNCHANGED out
    ELSE /\ Len(out) < MaxLines
         /\ out' = IF ok THEN Append(out, LogLine(level, skip, m.format, m.a, stack))
                         ELSE out
         /\ last' = [op |-> op, level |-> level, floor |-> Level,
                     ret |-> IF ok THEN "nil" ELSE "err",
                     writes |-> 1,
                     bytes |-> IF ok THEN Len(LogLine(level, skip, m.format, m.a, stack))
                                     ELSE 0,
                     locked |-> TRUE,
                     line |-> LogLine(level, skip, m.format, m.a, stack),
                     msg |-> Sprintf(m.format, m.a),
                     caller |-> CallerField(stack, 1 + callerSkip + skip),
                     time |-> logTime, tLevel |-> LogLevel, tCaller |-> LogCaller]

\* l.Log(level, skip, ...), or the package's Log on Default.
CallLog(level, skip, m, user, ok) ==
    /\ Log("Log", level, skip, m, Stack(<<>>, user), ok)
    /\ UNCHANGED <<Level, fsVars, mwcVars, logTime, callerSkip, LogLevel, LogCaller>>

\* func (l *Logger) Debugf
Debugf(m, user, ok) ==
    /\ Log("Debugf", Debug, 1, m, Stack(<<MethodFrame(212)>>, user), ok)
    /\ UNCHANGED <<Level, fsVars, mwcVars, logTime, callerSkip, LogLevel, LogCaller>>

\* func (l *Logger) Infof
Infof(m, user, ok) ==
    /\ Log("Infof", Info, 1, m, Stack(<<MethodFrame(217)>>, user), ok)
    /\ UNCHANGED <<Level, fsVars, mwcVars, logTime, callerSkip, LogLevel, LogCaller>>

\* func (l *Logger) Errorf
Errorf(m, user, ok) ==
    /\ Log("Errorf", Error, 1, m, Stack(<<MethodFrame(223)>>, user), ok)
    /\ UNCHANGED <<Level, fsVars, mwcVars, logTime, callerSkip, LogLevel, LogCaller>>

\* l.Level = level (the field is exported), Default.Level = Level(*vLevel)
SetLevel(level) ==
    /\ level # Level
    /\ Level' = level
    /\ UNCHANGED <<fsVars, fmtVars, mwcVars>>

\* Default.logTime = *logTime
SetLogTime(b) ==
    /\ b # logTime
    /\ logTime' = b
    /\ UNCHANGED <<Level, fsVars, mwcVars, callerSkip, LogLevel, LogCaller, out, last>>

\* The tests' l.LogLevel = c.logLevel; l.LogCaller = c.logCaller
SetToggles(lv, c) ==
    /\ <<lv, c>> # <<LogLevel, LogCaller>>
    /\ LogLevel' = lv
    /\ LogCaller' = c
    /\ UNCHANGED <<Level, fsVars, mwcVars, logTime, callerSkip, out, last>>

\* The tests' os.Truncate(fname, 0)
Truncate ==
    /\ out # <<>>
    /\ out' = <<>>
    /\ UNCHANGED <<Level, fsVars, mwcVars, logTime, callerSkip, LogLevel, LogCaller, last>>

FsIdle ==
    /\ fname = <<>>
    /\ w = 1
    /\ mu = 0
    /\ handles = <<NewHandle(1, <<>>)>>
    /\ files = NoFiles
    /\ content = << <<>> >>
    /\ cwd = DirA
    /\ pc = [t \in Threads |-> "idle"]
    /\ loc = [t \in Threads |-> NoLoc]
    /\ calls = <<>>
    /\ hist = NoHist

\* New(w), or the package's Default.
InitFmt ==
    /\ FsIdle
    /\ MwcIdle
    /\ Level = Info
    /\ \/ logTime = TRUE /\ callerSkip = 0
       \/ logTime = FALSE /\ callerSkip = 1
    /\ LogLevel = TRUE
    /\ LogCaller = TRUE
    /\ out = <<>>
    /\ last = NoLast

NextFmt ==
    \/ \E level \in Levels, skip \in Skips, ok \in BOOLEAN :
          CallLog(level, skip, Plain, TestFrame, ok)
    \/ Debugf(Plain, TestFrame, TRUE)
    \/ \E m \in Messages, user \in UserFrames : Infof(m, user, TRUE)
    \/ Errorf(Plain, TestFrame, TRUE)
    \/ \E level \in Floors : SetLevel(level)
    \/ \E b \in BOOLEAN : SetLogTime(b)
    \/ Truncate

SpecFmt == InitFmt /\ [][NextFmt]_vars

NextToggles ==
    \/ NextFmt
    \/ \E lv, c \in BOOLEAN : SetToggles(lv, c)

SpecToggles == InitFmt /\ [][NextToggles]_vars

---------------------------------------------------------------------------
(* C3 *)

\* C3: Log writes to the sink exactly when the call's level is at most the
\* floor (Fatal -2 < Error -1 < Info 0 < Debug 1): a call above the floor
\* returns nil, writes no byte and does not take the lock; a call at or
\* below it calls the sink's Write exactly once.
C3_LogIffLevelPasses ==
    last.op # "none" =>
        /\ last.level <= last.floor =>
              /\ last.writes = 1
              /\ last.locked
              /\ last.ret = "nil" => last.bytes > 0
        /\ last.level > last.floor =>
              /\ last.ret = "nil"
              /\ last.writes = 0
              /\ last.bytes = 0
              /\ ~last.locked

\* With a line already in the sink, a Debug call under an Info floor has
\* returned without writing.
C3_Witness ==
    /\ out # <<>>
    /\ last.op = "Debugf"
    /\ last.level = Debug
    /\ last.floor = Info
    /\ last.writes = 0

---------------------------------------------------------------------------
(* C8 *)

\* The line the toggles call for: the time, the level's marker, the caller,
\* each present only if its toggle is on, then the message and one newline.
ToggledLine(call) ==
    LET body == (IF call.time THEN TimeStamp ELSE <<>>)
                   \o (IF call.tLevel THEN Letter(call.level) \o <<Sp>> ELSE <<>>)
                   \o (IF call.tCaller THEN call.caller \o <<Sp>> ELSE <<>>)
                   \o call.msg
    IN IF HasNewline(body) THEN body ELSE body \o <<Nl>>

\* C8: for each of the 8 settings of the time, level and caller toggles the
\* line written is the time, the level's marker and the caller, in that
\* order, each only if its toggle is on, then the message and one newline.
C8_LineFollowsToggles ==
    last.writes = 1 => last.line = ToggledLine(last)

---------------------------------------------------------------------------
(* The fan-out writer, type mwc []io.WriteCloser. *)

MaxSinks == 3
MaxWrites == 2

\* A wrapped writer: the bytes it holds, and the Write and Close calls made
\* on it.
NewSink == [buf |-> <<>>, writes |-> 0, closes |-> 0]

Payload == <<"x", "y">>

\* One wrapped writer's Write(p): it takes p, or fails having taken the
\* first k bytes of it.
SinkWrite(sk, p, fails, k) ==
    [sk EXCEPT !.buf = @ \o (IF fails THEN SubSeq(p, 1, k) ELSE p),
               !.writes = @ + 1]

\* One wrapped writer's Close().
SinkClose(sk) == [sk EXCEPT !.closes = @ + 1]

\* A faulty Write: the loop from the i-th writer on does not stop at an
\* error, and the first error is returned at the end.
RECURSIVE WriteAllFrom(_, _, _, _, _, _)
WriteAllFrom(ss, i, p, fail, k, err) ==
    IF i > Len(ss) THEN [sinks |-> ss, err |-> err]
    ELSE WriteAllFrom([ss EXCEPT ![i] = SinkWrite(ss[i], p, i \in fail, k)],
                      i + 1, p, fail, k,
                      IF err = 0 /\ i \in fail THEN i ELSE err)

MwcWriteAll(ss, p, fail, k) == WriteAllFrom(ss, 1, p, fail, k, 0)

\* for _, w := range m { if n, err = w.Write(p); err != nil { return } }
RECURSIVE WriteFrom(_, _, _, _, _)
WriteFrom(ss, i, p, fail, k) ==
    IF i > Len(ss) THEN [sinks |-> ss, err |-> 0]
    ELSE IF i \in fail
         THEN [sinks |-> [ss EXCEPT ![i] = SinkWrite(ss[i], p, TRUE, k)],
               err |-> i]
         ELSE WriteFrom([ss EXCEPT ![i] = SinkWrite(ss[i], p, FALSE, k)],
                        i + 1, p, fail, k)

\* func (m mwc) Write(p []byte) (n int, err error)
MwcWrite(ss, p, fail, k) == WriteFrom(ss, 1, p, fail, k)

\* for _, w := range m { if err := w.Close(); err != nil { return err } }
RECURSIVE CloseFrom(_, _, _)
CloseFrom(ss, i, fail) ==
    IF i > Len(ss) THEN [sinks |-> ss, err |-> 0]
    ELSE IF i \in fail
         THEN [sinks |-> [ss EXCEPT ![i] = SinkClose(ss[i])], err |-> i]
         ELSE CloseFrom([ss EXCEPT ![i] = SinkClose(ss[i])], i + 1, fail)

\* func (m mwc) Close() error
MwcClose(ss, fail) == CloseFrom(ss, 1, fail)

WritesDone == IF sinks = <<>> THEN 0 ELSE sinks[1].writes

\* m.Write(p), the writers of fail failing, each after k bytes.
Write(fail, k) ==
    /\ mres.op # "close"
    /\ WritesDone < MaxWrites
    /\ sinks' = MwcWrite(sinks, Payload, fail, k).sinks
    /\ mres' = [op |-> "write", err |-> MwcWrite(sinks, Payload, fail, k).err,
                p |-> Payload, fail |-> fail, before |-> sinks]
    /\ UNCHANGED <<Level, fsVars, fmtVars>>

\* m.Close(), the writers of fail failing.
Close(fail) ==
    /\ mres.op # "close"
    /\ sinks' = MwcClose(sinks, fail).sinks
    /\ mres' = [op |-> "close", err |-> MwcClose(sinks, fail).err,
                p |-> <<>>, fail |-> fail, before |-> sinks]
    /\ UNCHANGED <<Level, fsVars, fmtVars>>

\* multiWriteCloser(wc...)
InitMwc ==
    /\ FsIdle
    /\ FmtIdle
    /\ Level = Info
    /\ \E n \in 1..MaxSinks : sinks = [i \in 1..n |-> NewSink]
    /\ mres = NoRes

NextMwc ==
    \/ \E fail \in SUBSET DOMAIN sinks, k \in 0..Len(Payload) : Write(fail, k)
    \/ \E fail \in SUBSET DOMAIN sinks : Close(fail)

SpecMwc == InitMwc /\ [][NextMwc]_vars

\* The first writer of the call to fail, 0 if none does.
FirstFail(fail) == IF fail = {} THEN 0 ELSE CHOOSE i \in fail : \A j \in fail : i <= j

---------------------------------------------------------------------------
(* C6 *)

\* C6: Close of a fan-out writer calls Close on every wrapped writer, in
\* order, also after one of them has failed, and returns the first error.
C6_CloseTriesEveryWriter ==
    mres.op = "close" =>
        /\ \A i \in DOMAIN sinks : sinks[i].closes = mres.before[i].closes + 1
        /\ mres.err = FirstFail(mres.fail)

---------------------------------------------------------------------------
(* C7 *)

\* C7: Write of a fan-out writer hands the bytes to the wrapped writers in
\* order and stops at the first that fails, returning its error: the
\* writers before it hold the bytes, written once, the writers after it were
\* not called, and with no failure all hold the bytes and the result is nil.
C7_WriteStopsAtFirstError ==
    mres.op = "write" =>
        LET f == FirstFail(mres.fail) IN
        /\ mres.err = f
        /\ \A i \in DOMAIN sinks :
              /\ (f = 0 \/ i < f) =>
                    /\ sinks[i].buf = mres.before[i].buf \o mres.p
                    /\ sinks[i].writes = mres.before[i].writes + 1
              /\ (f # 0 /\ i = f) => sinks[i].writes = mres.before[i].writes + 1
              /\ (f # 0 /\ i > f) => sinks[i] = mres.before[i]

\* The second of three writers has failed: the first holds the bytes and the
\* third was not called.
C7_Witness ==
    /\ mres.op = "write"
    /\ Len(sinks) = 3
    /\ mres.err = 2
    /\ sinks[1].buf = mres.before[1].buf \o Payload
    /\ sinks[3].writes = 0

====
